---- MODULE Spec2Model ----
(***************************************************************************)
(* procshot_server (src/src/lib.rs): the scan loop scan_proc, the CPU      *)
(* usage estimator get_cpu_usage, the /proc/stat reader read_proc_stat and *)
(* the sentinel dummy_pid_status.                                          *)
(*                                                                         *)
(* Modelling notes.                                                        *)
(*  - An f64 is a record [k, n, d]: k = "fin" is the double nearest to the *)
(*    rational n/d (kept in lowest terms, d > 0, +0.0 is 0/1), "negzero"   *)
(*    is -0.0, "inf" is the infinity of sign n, "nan" is NaN.  Tick counts *)
(*    of the model are far below 2^53, so `as f64` is exact on them.       *)
(*  - A text line is a sequence of one-character strings.                  *)
(*  - PidStatus keeps the fields scan_proc computes with or filters on     *)
(*    (vmpeak, rss_pages, utime, stime, user_cpu_usage, sys_cpu_usage);    *)
(*    the other fields are copies of what procfs returned.                 *)
(*  - proc_table is /proc as the iteration in progress enumerated it,      *)
(*    snapshot the EncoDecode it assembled; outcome records what the last  *)
(*    iteration met (read is the value read_proc_stat returned, -1 if      *)
(*    none).                                                               *)
(*  - The wall clock `now` (whole seconds) never goes backwards and is not  *)
(*    before the epoch, so duration_since(UNIX_EPOCH) succeeds.            *)
(*  - The sums of read_proc_stat stay far below 2^64: the overflow of      *)
(*    `total +=` is out of the model's reach.                              *)
(***************************************************************************)
EXTENDS Integers, Sequences, FiniteSets, TLC

VARIABLES pc, previous_stats, previous_cpu_time, now, files, cycle, outcome,
          snapshot, proc_table, delay, arg, ret

vars == <<pc, previous_stats, previous_cpu_time, now, files, cycle, outcome,
          snapshot, proc_table, delay, arg, ret>>

(***************************** bounds **************************************)
MaxPid == 2
MaxTick == 1
MaxTotal == 1
MaxTime == 1
MaxDelay == 1
MaxCycles == 2
MaxPieces == 5
MaxFields == 3
MaxUid == 60

(************************** Option / Result ********************************)
None == [tag |-> "None"]
Some(v) == [tag |-> "Some", val |-> v]
Ok(v) == [tag |-> "Ok", val |-> v]
Err(e) == [tag |-> "Err", err |-> e]
Panic(m) == [tag |-> "Panic", msg |-> m]

(******************************* f64 ***************************************)
Abs(x) == IF x < 0 THEN -x ELSE x

RECURSIVE Gcd(_, _)
Gcd(a, b) == IF b = 0 THEN a ELSE Gcd(b, a % b)

NaN == [k |-> "nan", n |-> 0, d |-> 0]
Inf(s) == [k |-> "inf", n |-> s, d |-> 0]
NegZero == [k |-> "negzero", n |-> 0, d |-> 1]
PosZero == [k |-> "fin", n |-> 0, d |-> 1]

\* the double nearest to n/d, d # 0, n # 0 or the positive zero
Fin(n, d) ==
    IF n = 0 THEN PosZero
    ELSE LET g == Gcd(Abs(n), Abs(d))
             s == IF d < 0 THEN -1 ELSE 1
         IN  [k |-> "fin", n |-> (s * n) \div g, d |-> (s * d) \div g]

IsZeroF(a) == a.k = "negzero" \/ (a.k = "fin" /\ a.n = 0)
SignF(a) == IF a.k = "negzero" \/ a.n < 0 THEN -1 ELSE 1
SignedZero(s) == IF s < 0 THEN NegZero ELSE PosZero

\* `x as f64` for a u64 below 2^53
u64_as_f64(x) == Fin(x, 1)

\* a - b
f64_sub(a, b) ==
    IF a.k = "nan" \/ b.k = "nan" THEN NaN
    ELSE IF a.k = "inf" THEN (IF b.k = "inf" /\ b.n = a.n THEN NaN ELSE a)
    ELSE IF b.k = "inf" THEN Inf(-b.n)
    ELSE LET v == a.n * b.d - b.n * a.d
         IN  IF v = 0
             THEN (IF a.k = "negzero" /\ b.k = "fin" THEN NegZero ELSE PosZero)
             ELSE Fin(v, a.d * b.d)

\* a * b
f64_mul(a, b) ==
    IF a.k = "nan" \/ b.k = "nan" THEN NaN
    ELSE IF a.k = "inf" \/ b.k = "inf"
         THEN (IF IsZeroF(a) \/ IsZeroF(b) THEN NaN ELSE Inf(SignF(a) * SignF(b)))
    ELSE IF IsZeroF(a) \/ IsZeroF(b) THEN SignedZero(SignF(a) * SignF(b))
    ELSE Fin(a.n * b.n, a.d * b.d)

\* a / b
f64_div(a, b) ==
    IF a.k = "nan" \/ b.k = "nan" THEN NaN
    ELSE IF a.k = "inf"
         THEN (IF b.k = "inf" THEN NaN ELSE Inf(SignF(a) * SignF(b)))
    ELSE IF b.k = "inf" THEN SignedZero(SignF(a) * SignF(b))
    ELSE IF IsZeroF(b)
         THEN (IF IsZeroF(a) THEN NaN ELSE Inf(SignF(a) * SignF(b)))
    ELSE IF IsZeroF(a) THEN SignedZero(SignF(a) * SignF(b))
    ELSE Fin(a.n * b.d, a.d * b.n)

(*************************** get_cpu_usage *********************************)
\* 100 as f64 * (cur as f64 - prev as f64) / (cct as f64 - pct as f64)
Quotient(cur, prev, cct, pct) ==
    f64_div(f64_mul(u64_as_f64(100), f64_sub(u64_as_f64(cur), u64_as_f64(prev))),
            f64_sub(u64_as_f64(cct), u64_as_f64(pct)))

\* variant: a pid without a previous record is diffed against zero ticks
get_cpu_usage_AbsentAsZeroTicks(type_of, pid, previous, current_type_time, current_cpu_time, prev_cpu_time) ==
    IF type_of \notin {"user", "system"} THEN PosZero
    ELSE IF previous.tag = "Some" /\ pid \in DOMAIN previous.val
    THEN Quotient(current_type_time,
                  IF type_of = "user" THEN previous.val[pid].utime
                  ELSE previous.val[pid].stime,
                  current_cpu_time, prev_cpu_time)
    ELSE Quotient(current_type_time, 0, current_cpu_time, prev_cpu_time)

\* variant: the "system" arm diffs against the previous utime
get_cpu_usage_SystemUsesUtime(type_of, pid, previous, current_type_time, current_cpu_time, prev_cpu_time) ==
    IF type_of \notin {"user", "system"} THEN PosZero
    ELSE IF previous.tag = "Some" /\ pid \in DOMAIN previous.val
    THEN Quotient(current_type_time, previous.val[pid].utime,
                  current_cpu_time, prev_cpu_time)
    ELSE PosZero

\* variant: the differences are taken in u64 and stop at zero
get_cpu_usage_SaturatingSub(type_of, pid, previous, current_type_time, current_cpu_time, prev_cpu_time) ==
    IF type_of \notin {"user", "system"} THEN PosZero
    ELSE IF previous.tag = "Some" /\ pid \in DOMAIN previous.val
    THEN LET p == IF type_of = "user" THEN previous.val[pid].utime
                  ELSE previous.val[pid].stime
         IN  Quotient(IF current_type_time < p THEN p ELSE current_type_time, p,
                      IF current_cpu_time < prev_cpu_time THEN prev_cpu_time
                      ELSE current_cpu_time, prev_cpu_time)
    ELSE PosZero

\* variant: a zero or negative denominator is clamped to 0.0
get_cpu_usage_Clamped(type_of, pid, previous, current_type_time, current_cpu_time, prev_cpu_time) ==
    IF type_of \notin {"user", "system"} THEN PosZero
    ELSE IF previous.tag = "Some" /\ pid \in DOMAIN previous.val
            /\ current_cpu_time > prev_cpu_time
    THEN Quotient(current_type_time,
                  IF type_of = "user" THEN previous.val[pid].utime
                  ELSE previous.val[pid].stime,
                  current_cpu_time, prev_cpu_time)
    ELSE PosZero

get_cpu_usage(type_of, pid, previous, current_type_time, current_cpu_time, prev_cpu_time) ==
    CASE type_of = "user" ->
           IF previous.tag = "Some"
           THEN IF pid \in DOMAIN previous.val
                THEN f64_div(f64_mul(u64_as_f64(100),
                                     f64_sub(u64_as_f64(current_type_time),
                                             u64_as_f64(previous.val[pid].utime))),
                             f64_sub(u64_as_f64(current_cpu_time),
                                     u64_as_f64(prev_cpu_time)))
                ELSE PosZero
           ELSE PosZero
      [] type_of = "system" ->
           IF previous.tag = "Some"
           THEN IF pid \in DOMAIN previous.val
                THEN f64_div(f64_mul(u64_as_f64(100),
                                     f64_sub(u64_as_f64(current_type_time),
                                             u64_as_f64(previous.val[pid].stime))),
                             f64_sub(u64_as_f64(current_cpu_time),
                                     u64_as_f64(prev_cpu_time)))
                ELSE PosZero
           ELSE PosZero
      [] OTHER -> PosZero   \* println!("Keyword not supported!"); 0.0

(*************************** read_proc_stat ********************************)
DigitChars == <<"0", "1", "2", "3", "4", "5", "6", "7", "8", "9">>
IsDigit(c) == \E i \in 1..10 : DigitChars[i] = c
DigitVal(c) == (CHOOSE i \in 1..10 : DigitChars[i] = c) - 1

IsAt(s, i, pat) ==
    /\ i + Len(pat) - 1 <= Len(s)
    /\ SubSeq(s, i, i + Len(pat) - 1) = pat

\* str::split(pat): the pieces between the non-overlapping matches of pat
RECURSIVE Split(_, _)
Split(s, pat) ==
    IF \E i \in 1..Len(s) : IsAt(s, i, pat)
    THEN LET i == CHOOSE j \in 1..Len(s) :
                      IsAt(s, j, pat) /\ \A h \in 1..(j - 1) : ~IsAt(s, h, pat)
         IN  <<SubSeq(s, 1, i - 1)>> \o Split(SubSeq(s, i + Len(pat), Len(s)), pat)
    ELSE <<s>>

\* str::parse::<u64>() on a token of the model's alphabet
RECURSIVE DigitsValue(_)
DigitsValue(t) ==
    IF t = <<>> THEN 0
    ELSE 10 * DigitsValue(SubSeq(t, 1, Len(t) - 1)) + DigitVal(t[Len(t)])

parse_u64(t) ==
    IF t = <<>> \/ \E i \in 1..Len(t) : ~IsDigit(t[i])
    THEN Err("ParseIntError")
    ELSE Ok(DigitsValue(t))

RECURSIVE SumParsed(_)
\* variant: only the first field is counted
SumParsed_FirstOnly(v) == IF v = <<>> THEN 0 ELSE parse_u64(Head(v)).val

SumParsed(v) ==
    IF v = <<>> THEN 0 ELSE parse_u64(Head(v)).val + SumParsed(Tail(v))

CpuPat == <<"c", "p", "u">>
SpacePat == <<" ">>

\* f is /proc/stat as the call finds it: [open, first], first the first item
\* of BufReader::lines(): None, Some(Err) or Some(Ok(line))
read_proc_stat(f) ==
    IF ~f.open THEN Err("open")
    ELSE IF f.first.tag = "None"
         THEN Err("Cannot read the first line from /proc/stat.")
    ELSE IF f.first.tag = "Err" THEN Err("read")
    ELSE LET pieces == Split(f.first.val, CpuPat)
         IN  IF Len(pieces) < 2 THEN Panic("index out of bounds")
             ELSE LET total_vector ==
                          SelectSeq(Split(pieces[2], SpacePat),
                                    LAMBDA x : x # <<>>)
                  IN  IF \E i \in 1..Len(total_vector) :
                             parse_u64(total_vector[i]).tag = "Err"
                      THEN Panic("unwrap on ParseIntError")
                      ELSE Ok(SumParsed(total_vector))

(************************** dummy_pid_status *******************************)
U64_MAX == 2147483647   \* stands for std::u64::MAX; only its presence is observed

\* the fields of procfs::Status that scan_proc reads
dummy_pid_status == [pid |-> -1, vmpeak |-> Some(U64_MAX)]

(***************************** /proc ***************************************)
Pids == 1..MaxPid
Ticks == 0..MaxTick

\* One entry of /proc at enumeration time: prc.status() and prc.stat.
Proc(p, st, rss, u, s) ==
    [present |-> TRUE, pid |-> p, status |-> st, rss |-> rss, utime |-> u,
     stime |-> s]
Gone(p) ==
    [present |-> FALSE, pid |-> p, status |-> Err("gone"), rss |-> 0,
     utime |-> 0, stime |-> 0]

ProcChoices(p) ==
    {Gone(p),
     Proc(p, Err("status"), 1, 0, 0),                              \* status() fails
     Proc(p, Ok([pid |-> p, vmpeak |-> None]), 1, 0, 0),           \* no VmPeak
     Proc(p, Ok([pid |-> p, vmpeak |-> Some(1)]), 0, 0, 0)}        \* rss = 0
    \cup {Proc(p, Ok([pid |-> p, vmpeak |-> Some(1)]), 1, u, s) : u \in Ticks, s \in Ticks}

ProcTables ==
    {t \in [Pids -> UNION {ProcChoices(p) : p \in Pids}] :
        \A p \in Pids : t[p] \in ProcChoices(p)}

\* procfs::all_processes(): the entries present, in directory order
RECURSIVE ProcsFrom(_, _)
ProcsFrom(t, p) ==
    IF p > MaxPid THEN <<>>
    ELSE (IF t[p].present THEN <<t[p]>> ELSE <<>>) \o ProcsFrom(t, p + 1)

all_processes(t) == ProcsFrom(t, 1)

(***************************** scan_proc ***********************************)
Host == <<"h">>
DataDir == "datadir"

\* variant: the sign of the pid is not tested
Omitted_NoPidTest(status, prc) ==
    status.vmpeak = None \/ prc.rss = 0

\* variant: the resident set size is not tested
Omitted_NoRssTest(status, prc) ==
    status.vmpeak = None \/ status.pid < 0

\* the test of line 136
Omitted(status, prc) ==
    status.vmpeak = None \/ prc.rss = 0 \/ status.pid < 0

\* variant: the two totals change places in the calls
MakePidStatus_TotalsSwapped(status, prc, prev, total_cpu_time, prev_cpu_time) ==
    [vmpeak |-> status.vmpeak,
     rss_pages |-> prc.rss,
     utime |-> prc.utime,
     stime |-> prc.stime,
     user_cpu_usage |-> get_cpu_usage("user", status.pid, prev, prc.utime,
                                      prev_cpu_time, total_cpu_time),
     sys_cpu_usage |-> get_cpu_usage("system", status.pid, prev, prc.stime,
                                     prev_cpu_time, total_cpu_time)]

MakePidStatus(status, prc, prev, total_cpu_time, prev_cpu_time) ==
    [vmpeak |-> status.vmpeak,
     rss_pages |-> prc.rss,
     utime |-> prc.utime,
     stime |-> prc.stime,
     user_cpu_usage |-> get_cpu_usage("user", status.pid, prev, prc.utime,
                                      total_cpu_time, prev_cpu_time),
     sys_cpu_usage |-> get_cpu_usage("system", status.pid, prev, prc.stime,
                                     total_cpu_time, prev_cpu_time)]

\* the for loop of lines 134-178 over the enumeration procs, acc the map so far
RECURSIVE ScanProcesses(_, _, _, _, _)
ScanProcesses(procs, acc, prev, total_cpu_time, prev_cpu_time) ==
    IF procs = <<>> THEN acc
    ELSE LET prc == Head(procs)
             status == IF prc.status.tag = "Ok" THEN prc.status.val
                       ELSE dummy_pid_status
         IN  IF Omitted(status, prc)
             THEN ScanProcesses(Tail(procs), acc, prev, total_cpu_time,
                                prev_cpu_time)
             ELSE ScanProcesses(Tail(procs),
                      (status.pid :> MakePidStatus(status, prc, prev,
                                         total_cpu_time, prev_cpu_time)) @@ acc,
                      prev, total_cpu_time, prev_cpu_time)

EncoDecode(host, map, time_epoch, d, total_cpu_time) ==
    [hostname |-> host, pid_map_list |-> map, time_epoch |-> time_epoch,
     delay |-> d, total_cpu_time |-> total_cpu_time]

(************************* #[derive(PartialEq)] ****************************)
\* f64 == f64: a NaN equals nothing, the two zeros equal each other
f64_eq(a, b) ==
    /\ a.k # "nan"
    /\ b.k # "nan"
    /\ (a = b \/ (IsZeroF(a) /\ IsZeroF(b)))

PidStatus_eq(a, b) ==
    /\ a.vmpeak = b.vmpeak
    /\ a.rss_pages = b.rss_pages
    /\ a.utime = b.utime
    /\ a.stime = b.stime
    /\ f64_eq(a.user_cpu_usage, b.user_cpu_usage)
    /\ f64_eq(a.sys_cpu_usage, b.sys_cpu_usage)

EncoDecode_eq(a, b) ==
    /\ a.hostname = b.hostname
    /\ DOMAIN a.pid_map_list = DOMAIN b.pid_map_list
    /\ \A p \in DOMAIN a.pid_map_list :
          PidStatus_eq(a.pid_map_list[p], b.pid_map_list[p])
    /\ a.time_epoch = b.time_epoch
    /\ a.delay = b.delay
    /\ a.total_cpu_time = b.total_cpu_time

(************************* bincode::serialize ******************************)
\* The encoding is a sequence of fixed-width items <<type, value>>.
EncOptionU64(o) ==
    IF o.tag = "None" THEN << <<"u8", 0>> >>
    ELSE << <<"u8", 1>>, <<"u64", o.val>> >>

EncPidStatus(s) ==
    EncOptionU64(s.vmpeak) \o
    << <<"i64", s.rss_pages>>, <<"u64", s.utime>>, <<"u64", s.stime>>,
       <<"f64", s.user_cpu_usage>>, <<"f64", s.sys_cpu_usage>> >>

RECURSIVE EncEntries(_, _)
EncEntries(map, order) ==
    IF order = <<>> THEN <<>>
    ELSE << <<"i32", Head(order)>> >> \o EncPidStatus(map[Head(order)])
         \o EncEntries(map, Tail(order))

\* the orders in which a HashMap with key set S may be iterated
Orders(S) ==
    {o \in [1..Cardinality(S) -> S] : \A i, j \in 1..Cardinality(S) :
                                          o[i] = o[j] => i = j}

\* variant: delay is written before time_epoch
bincode_serialize_DelayFirst(e, order) ==
    << <<"u64", Len(e.hostname)>>, <<"bytes", e.hostname>>,
       <<"u64", Len(order)>> >>
    \o EncEntries(e.pid_map_list, order)
    \o << <<"u64", e.delay>>, <<"u64", e.time_epoch>>,
          <<"u64", e.total_cpu_time>> >>

\* bincode::serialize(&e) when the map is iterated in `order`
bincode_serialize(e, order) ==
    << <<"u64", Len(e.hostname)>>, <<"bytes", e.hostname>>,
       <<"u64", Len(order)>> >>
    \o EncEntries(e.pid_map_list, order)
    \o << <<"u64", e.time_epoch>>, <<"u64", e.delay>>,
          <<"u64", e.total_cpu_time>> >>

(************************ bincode::deserialize *****************************)
\* Reading the items back, as the crate's example does (line 16).  An item of
\* another type than the one expected stands for bytes that do not decode.
IsItem(b, i, ty) == i <= Len(b) /\ b[i][1] = ty

DecOk(v, next) == [tag |-> "Ok", val |-> v, next |-> next]

DecOptionU64(b, i) ==
    IF ~IsItem(b, i, "u8") THEN Err("eof")
    ELSE IF b[i][2] = 0 THEN DecOk(None, i + 1)
    ELSE IF b[i][2] = 1 /\ IsItem(b, i + 1, "u64")
         THEN DecOk(Some(b[i + 1][2]), i + 2)
    ELSE Err("invalid")

\* one PidStatus from item i on
DecPidStatus(b, i) ==
    LET o == DecOptionU64(b, i)
    IN  IF o.tag = "Err" THEN o
        ELSE IF /\ IsItem(b, o.next, "i64") /\ IsItem(b, o.next + 1, "u64")
                /\ IsItem(b, o.next + 2, "u64") /\ IsItem(b, o.next + 3, "f64")
                /\ IsItem(b, o.next + 4, "f64")
             THEN DecOk([vmpeak |-> o.val,
                         rss_pages |-> b[o.next][2],
                         utime |-> b[o.next + 1][2],
                         stime |-> b[o.next + 2][2],
                         user_cpu_usage |-> b[o.next + 3][2],
                         sys_cpu_usage |-> b[o.next + 4][2]], o.next + 5)
        ELSE Err("eof")

\* cnt (key, PidStatus) pairs from item i on, inserted into the map acc
RECURSIVE DecEntries(_, _, _, _)
DecEntries(b, i, cnt, acc) ==
    IF cnt = 0 THEN DecOk(acc, i)
    ELSE IF ~IsItem(b, i, "i32") THEN Err("eof")
    ELSE LET v == DecPidStatus(b, i + 1)
         IN  IF v.tag = "Err" THEN v
             ELSE DecEntries(b, v.next, cnt - 1, (b[i][2] :> v.val) @@ acc)

\* bincode::deserialize::<EncoDecode>(&data[..]); bytes after the value are
\* not looked at
bincode_deserialize(b) ==
    IF ~(IsItem(b, 1, "u64") /\ IsItem(b, 2, "bytes") /\ IsItem(b, 3, "u64"))
    THEN Err("eof")
    ELSE IF Len(b[2][2]) # b[1][2] THEN Err("invalid")
    ELSE LET m == DecEntries(b, 4, b[3][2], <<>>)
         IN  IF m.tag = "Err" THEN m
             ELSE IF /\ IsItem(b, m.next, "u64") /\ IsItem(b, m.next + 1, "u64")
                     /\ IsItem(b, m.next + 2, "u64")
                  THEN Ok(EncoDecode(b[2][2], m.val, b[m.next][2],
                                     b[m.next + 1][2], b[m.next + 2][2]))
             ELSE Err("eof")

\* variant: the file is named by the delay
FileName_UsesDelay(datadir, time_epoch) == <<datadir, delay, "procshot">>

FileName(datadir, time_epoch) == <<datadir, time_epoch, "procshot">>

(**************************** /proc/stat ***********************************)
StatLine(l) == [open |-> TRUE, first |-> Some(l)]
StatUnopenable == [open |-> FALSE, first |-> None]
StatEmpty == [open |-> TRUE, first |-> None]
StatReadError == [open |-> TRUE, first |-> Err("read")]

\* what the scan loop may find in /proc/stat
LoopStatFiles ==
    {StatUnopenable, StatEmpty, StatReadError,
     StatLine(<<"c", "p", "u", " ", " ", "x">>),
     StatLine(<<"i", "n", "t", "r", " ", "1">>)}
    \cup {StatLine(<<"c", "p", "u", " ", " ", DigitChars[a + 1], " ",
                     DigitChars[b + 1]>>) : a \in 0..MaxTotal, b \in {0}}

\* what read_proc_stat() may return in the scan loop
LoopReads == {read_proc_stat(f) : f \in LoopStatFiles}

(*************************** the scan loop *********************************)
NoOutcome == [reader |-> "none", read |-> -1, file |-> "none", log |-> "none"]
NoSnapshot == [tag |-> "None"]
NoCall == [tag |-> "None"]

Init ==
    /\ pc = "Sampling"
    /\ previous_stats = None
    /\ previous_cpu_time = 0
    /\ now = 0
    /\ files = <<>>
    /\ cycle = 0
    /\ outcome = NoOutcome
    /\ snapshot = NoSnapshot
    /\ proc_table = None
    /\ delay \in 0..MaxDelay
    /\ arg = NoCall
    /\ ret = NoCall

\* variant: a failed read resets the retained previous sample
SampleReaderErr_Forgets ==
    /\ pc = "Sampling" /\ cycle < MaxCycles
    /\ \E r \in LoopReads : r.tag = "Err"
    /\ cycle' = cycle + 1
    /\ outcome' = [reader |-> "Err", read |-> -1, file |-> "none",
                   log |-> "Cannot read from /proc/stat"]
    /\ snapshot' = NoSnapshot
    /\ proc_table' = None
    /\ previous_stats' = None
    /\ previous_cpu_time' = 0
    /\ pc' = "Sampling"
    /\ UNCHANGED <<now, files, delay, arg, ret>>

\* read_proc_stat() returns Err: eprintln!, continue
SampleReaderErr ==
    /\ pc = "Sampling" /\ cycle < MaxCycles
    /\ \E r \in LoopReads : r.tag = "Err"
    /\ cycle' = cycle + 1
    /\ outcome' = [reader |-> "Err", read |-> -1, file |-> "none",
                   log |-> "Cannot read from /proc/stat"]
    /\ snapshot' = NoSnapshot
    /\ proc_table' = None
    /\ pc' = "Sampling"
    /\ UNCHANGED <<previous_stats, previous_cpu_time, now, files, delay, arg, ret>>

\* a panic unwinds scan_proc: its locals are dropped and the loop is over
Unwind ==
    /\ pc' = "Crashed"
    /\ previous_stats' = None
    /\ previous_cpu_time' = 0
    /\ snapshot' = NoSnapshot
    /\ proc_table' = None

\* read_proc_stat() panics
SampleReaderPanic ==
    /\ pc = "Sampling" /\ cycle < MaxCycles
    /\ \E r \in LoopReads : r.tag = "Panic"
    /\ cycle' = cycle + 1
    /\ outcome' = [reader |-> "Panic", read |-> -1, file |-> "none", log |-> "none"]
    /\ Unwind
    /\ UNCHANGED <<now, files, delay, arg, ret>>

\* variant: the map is carried over from the previous iteration and updated
Assemble_KeepsOld(total_cpu_time, table) ==
    EncoDecode(Host,
               ScanProcesses(all_processes(table),
                             IF previous_stats.tag = "Some"
                             THEN previous_stats.val ELSE <<>>,
                             previous_stats, total_cpu_time, previous_cpu_time),
               now, delay, total_cpu_time)

\* lines 120-188 once read_proc_stat() returned Ok(total_cpu_time)
Assemble(total_cpu_time, table) ==
    EncoDecode(Host,
               ScanProcesses(all_processes(table), <<>>, previous_stats,
                             total_cpu_time, previous_cpu_time),
               now, delay, total_cpu_time)

\* lines 179-180
AdvancePrevious(e) ==
    /\ previous_stats' = Some(e.pid_map_list)
    /\ previous_cpu_time' = e.total_cpu_time

\* the whole iteration: the file is created and written
SampleWritten ==
    /\ pc = "Sampling" /\ cycle < MaxCycles
    /\ \E r \in LoopReads, table \in ProcTables :
         /\ r.tag = "Ok"
         /\ LET e == Assemble(r.val, table)
            IN  /\ AdvancePrevious(e)
                /\ snapshot' = Some(e)
                /\ proc_table' = Some(table)
                /\ outcome' = [reader |-> "Ok", read |-> r.val, file |-> "Ok",
                               log |-> "none"]
                /\ \E order \in Orders(DOMAIN e.pid_map_list) :
                     files' = (FileName(DataDir, e.time_epoch) :>
                                 bincode_serialize(e, order)) @@ files
    /\ cycle' = cycle + 1
    /\ pc' = "Sleeping"
    /\ UNCHANGED <<now, delay, arg, ret>>

\* variant: the previous sample advances only once the file exists
SampleCreateErr_KeepsPrevious ==
    /\ pc = "Sampling" /\ cycle < MaxCycles
    /\ \E r \in LoopReads, table \in ProcTables :
         /\ r.tag = "Ok"
         /\ LET e == Assemble(r.val, table)
            IN  /\ snapshot' = Some(e)
                /\ proc_table' = Some(table)
                /\ outcome' = [reader |-> "Ok", read |-> r.val,
                               file |-> "CreateErr",
                               log |-> "Cannot create file!"]
    /\ cycle' = cycle + 1
    /\ pc' = "Sleeping"
    /\ UNCHANGED <<previous_stats, previous_cpu_time, now, files, delay, arg, ret>>

\* File::create fails: eprintln!, nothing is written
SampleCreateErr ==
    /\ pc = "Sampling" /\ cycle < MaxCycles
    /\ \E r \in LoopReads, table \in ProcTables :
         /\ r.tag = "Ok"
         /\ LET e == Assemble(r.val, table)
            IN  /\ AdvancePrevious(e)
                /\ snapshot' = Some(e)
                /\ proc_table' = Some(table)
                /\ outcome' = [reader |-> "Ok", read |-> r.val,
                               file |-> "CreateErr",
                               log |-> "Cannot create file!"]
    /\ cycle' = cycle + 1
    /\ pc' = "Sleeping"
    /\ UNCHANGED <<now, files, delay, arg, ret>>

\* what write_all may leave behind when it fails
PartialLens(bytes) == {n \in {0, 3} : n < Len(bytes)}

\* File::create succeeds (the file is truncated), write_all fails: unwrap panics
SampleWritePanic ==
    /\ pc = "Sampling" /\ cycle < MaxCycles
    /\ \E r \in LoopReads, table \in ProcTables :
         /\ r.tag = "Ok"
         /\ LET e == Assemble(r.val, table)
            IN  /\ outcome' = [reader |-> "Ok", read |-> r.val,
                               file |-> "WriteErr", log |-> "none"]
                /\ \E order \in Orders(DOMAIN e.pid_map_list) :
                     \E n \in PartialLens(bincode_serialize(e, order)) :
                       files' = (FileName(DataDir, e.time_epoch) :>
                                   SubSeq(bincode_serialize(e, order), 1, n))
                                @@ files
    /\ cycle' = cycle + 1
    /\ Unwind
    /\ UNCHANGED <<now, delay, arg, ret>>

\* variant: the sleep returns at once
Sleep_ReturnsAtOnce ==
    /\ pc = "Sleeping" /\ cycle < MaxCycles
    /\ pc' = "Sampling"
    /\ proc_table' = None
    /\ UNCHANGED <<previous_stats, previous_cpu_time, now, files, cycle, outcome,
                   snapshot, delay, arg, ret>>

\* thread::sleep(Duration::from_secs(delay)), line 199
Sleep ==
    /\ pc = "Sleeping" /\ cycle < MaxCycles
    /\ now + delay <= MaxTime
    /\ now' = now + delay
    /\ pc' = "Sampling"
    /\ proc_table' = None   \* the enumeration is dropped with the iteration
    /\ UNCHANGED <<previous_stats, previous_cpu_time, files, cycle, outcome,
                   snapshot, delay, arg, ret>>

\* the wall clock passes a second boundary between two readings of it
\* (now counts from the first reading)
Tick ==
    /\ pc = "Sampling" /\ 0 < cycle /\ cycle < MaxCycles
    /\ now < MaxTime
    /\ now' = now + 1
    /\ UNCHANGED <<pc, previous_stats, previous_cpu_time, files, cycle, outcome,
                   snapshot, proc_table, delay, arg, ret>>

Next ==
    \/ SampleReaderErr
    \/ SampleReaderPanic
    \/ SampleWritten
    \/ SampleCreateErr
    \/ SampleWritePanic
    \/ Sleep
    \/ Tick

Spec == Init /\ [][Next]_vars

(********************* get_cpu_usage called alone **************************)
UsageKinds == {"user", "system", "idle"}

PrevRecord(u, s) ==
    [vmpeak |-> Some(1), rss_pages |-> 1, utime |-> u, stime |-> s,
     user_cpu_usage |-> PosZero, sys_cpu_usage |-> PosZero]

PrevMaps ==
    UNION {[S -> {PrevRecord(u, s) : u \in Ticks, s \in Ticks}] : S \in SUBSET Pids}

UsageCall(type_of, pid, previous, current_type_time, current_cpu_time, prev_cpu_time) ==
    [tag |-> "Call", type_of |-> type_of, pid |-> pid, previous |-> previous,
     current_type_time |-> current_type_time,
     current_cpu_time |-> current_cpu_time,
     previous_cpu_time |-> prev_cpu_time]

\* previous user ticks 100, current 150, previous total 10000, current 10500
ExampleCall ==
    UsageCall("user", 1, Some((1 :> PrevRecord(100, 0))), 150, 10500, 10000)

UsageCalls ==
    {UsageCall(t, p, prev, c, ct, pt) :
        t \in UsageKinds, p \in Pids, prev \in {None} \cup {Some(m) : m \in PrevMaps},
        c \in Ticks, ct \in 0..MaxTotal, pt \in 0..MaxTotal}
    \cup {ExampleCall}

Returned(v) == [tag |-> "Return", val |-> v]

Idle ==
    /\ pc = "Idle"
    /\ previous_stats = None
    /\ previous_cpu_time = 0
    /\ now = 0
    /\ files = <<>>
    /\ cycle = 0
    /\ outcome = NoOutcome
    /\ snapshot = NoSnapshot
    /\ proc_table = None
    /\ delay = 0
    /\ ret = NoCall

InitUsage == Idle /\ arg \in UsageCalls

CallGetCpuUsage ==
    /\ arg.tag = "Call" /\ ret = NoCall
    /\ ret' = Returned(get_cpu_usage(arg.type_of, arg.pid, arg.previous,
                                     arg.current_type_time, arg.current_cpu_time,
                                     arg.previous_cpu_time))
    /\ UNCHANGED <<pc, previous_stats, previous_cpu_time, now, files, cycle,
                   outcome, snapshot, proc_table, delay, arg>>

NextUsage == CallGetCpuUsage

SpecUsage == InitUsage /\ [][NextUsage]_vars

(********************* read_proc_stat called alone *************************)
StatPieces ==
    {CpuPat, SpacePat, <<"x">>} \cup {<<DigitChars[a + 1]>> : a \in 0..MaxTotal}

RECURSIVE LinesOf(_)
LinesOf(k) ==
    IF k = 0 THEN {<<>>}
    ELSE LinesOf(k - 1) \cup {l \o q : l \in LinesOf(k - 1), q \in StatPieces}

LabelCount(l) == Cardinality({i \in 1..Len(l) : IsAt(l, i, CpuPat)})

\* first lines carrying the label at most once
StatLines == {l \in LinesOf(MaxPieces) : LabelCount(l) <= 1}

\* the kernel's aggregate record: the label, two spaces, the counters in
\* decimal with a space between them
RECURSIVE FormatU64(_)
FormatU64(n) ==
    IF n < 10 THEN <<DigitChars[n + 1]>>
    ELSE FormatU64(n \div 10) \o <<DigitChars[(n % 10) + 1]>>

RECURSIVE JoinFields(_)
JoinFields(fs) ==
    IF fs = <<>> THEN <<>>
    ELSE <<" ">> \o FormatU64(Head(fs)) \o JoinFields(Tail(fs))

CpuRecord(fs) == CpuPat \o <<" ">> \o JoinFields(fs)

FieldVals == {a * 100 + b : a, b \in 0..MaxTotal}

RECURSIVE FieldSeqsOf(_)
FieldSeqsOf(k) ==
    IF k = 0 THEN {<<>>}
    ELSE FieldSeqsOf(k - 1) \cup
         {Append(fs, v) : fs \in FieldSeqsOf(k - 1), v \in FieldVals}

FieldSeqs == FieldSeqsOf(MaxFields)

ExampleFields == <<100, 200, 300, 50, 10, 0, 0, 0, 0, 0>>

StatFiles ==
    {StatUnopenable, StatEmpty, StatReadError} \cup {StatLine(l) : l \in StatLines}

\* a call finds /proc/stat in one of the states above, or holding a record
\* the kernel formatted from the counters `fields`
StatCalls ==
    {[tag |-> "Call", file |-> f, fields |-> None] : f \in StatFiles}
        \cup {[tag |-> "Call", file |-> StatLine(CpuRecord(fs)), fields |-> Some(fs)] :
                 fs \in FieldSeqs \cup {ExampleFields}}

InitStat == Idle /\ arg \in StatCalls

CallReadProcStat ==
    /\ arg.tag = "Call" /\ ret = NoCall
    /\ ret' = IF read_proc_stat(arg.file).tag = "Panic"
              THEN read_proc_stat(arg.file)
              ELSE Returned(read_proc_stat(arg.file))
    /\ UNCHANGED <<pc, previous_stats, previous_cpu_time, now, files, cycle,
                   outcome, snapshot, proc_table, delay, arg>>

NextStat == CallReadProcStat

SpecStat == InitStat /\ [][NextStat]_vars

(************************ check_sudo called alone **************************)
Unit == <<>>   \* the value ()

\* variant: anything but the test's uid passes
check_sudo_RejectsOnlyTen(uid) ==
    IF uid # 10 THEN Ok(Unit) ELSE Err("Error: Run as root.")

check_sudo(uid) ==
    IF uid = 0 THEN Ok(Unit) ELSE Err("Error: Run as root.")

Uids == 0..MaxUid

InitSudo == Idle /\ arg \in {[tag |-> "Call", uid |-> u] : u \in Uids}

CallCheckSudo ==
    /\ arg.tag = "Call" /\ ret = NoCall
    /\ ret' = Returned(check_sudo(arg.uid))
    /\ UNCHANGED <<pc, previous_stats, previous_cpu_time, now, files, cycle,
                   outcome, snapshot, proc_table, delay, arg>>

NextSudo == CallCheckSudo

SpecSudo == InitSudo /\ [][NextSudo]_vars

(******************************* claims ************************************)
CycleDone == cycle' = cycle + 1

\* C1: a cycle in which read_proc_stat fails leaves previous_stats and
\* previous_cpu_time as they were on entry, assembles no snapshot and writes
\* no file.
C1_ReaderFailureIsolated ==
    [][(CycleDone /\ outcome'.reader = "Err") =>
         /\ previous_stats' = previous_stats
         /\ previous_cpu_time' = previous_cpu_time
         /\ files' = files
         /\ snapshot' = NoSnapshot]_vars

\* a failed read after a cycle that retained a sample and wrote a file
C1_Witness ==
    /\ outcome.reader = "Err"
    /\ previous_stats # None
    /\ previous_cpu_time > 0
    /\ DOMAIN files # {}

\* C2: every entry of an assembled snapshot has vmpeak present, rss_pages # 0
\* and a non-negative pid key.
C2_Inclusion ==
    snapshot.tag = "Some" =>
        \A p \in DOMAIN snapshot.val.pid_map_list :
            /\ p >= 0
            /\ snapshot.val.pid_map_list[p].vmpeak # None
            /\ snapshot.val.pid_map_list[p].rss_pages # 0

\* a second-cycle snapshot that holds one process and left the other out
C2_Witness ==
    /\ snapshot.tag = "Some"
    /\ cycle = 2
    /\ DOMAIN snapshot.val.pid_map_list = {2}

\* C3: every sampling cycle that does not crash is followed by the sleep, a
\* cycle with a failed read included.
C3_SleepAfterEveryCycle ==
    [][(CycleDone /\ pc' # "Crashed") => pc' = "Sleeping"]_vars

\* C4: a cycle whose file cannot be created or whose write fails ends in the
\* sleep, not in a crash.
C4_WriteFailureNeverAborts ==
    outcome.file \in {"CreateErr", "WriteErr"} => pc \in {"Sleeping", "Sampling"}

\* the sources the reader is to refuse: not openable, no first line, no label
\* on the first line, or a field after the label that is no number
BadStat(f) ==
    \/ ~f.open
    \/ f.first.tag # "Some"
    \/ /\ f.open /\ f.first.tag = "Some"
       /\ \/ LabelCount(f.first.val) = 0
          \/ LET at == CHOOSE i \in 1..Len(f.first.val) : IsAt(f.first.val, i, CpuPat)
             IN  \E j \in (at + 3)..Len(f.first.val) :
                     f.first.val[j] # " " /\ ~IsDigit(f.first.val[j])

\* C5: on such a source read_proc_stat returns an Err and does not panic.
C5_ReaderFailsSoftly ==
    (ret # NoCall /\ BadStat(arg.file)) => (ret.tag = "Return" /\ ret.val.tag = "Err")

NoPreviousSample(a) ==
    a.previous = None \/ a.pid \notin DOMAIN a.previous.val

\* C6: for kind user and system, get_cpu_usage returns exactly 0.0 when there
\* is no previous map or the pid is not in it, whatever the tick values.
C6_NoPreviousSampleIsZero ==
    (ret.tag = "Return" /\ arg.type_of \in {"user", "system"} /\ NoPreviousSample(arg))
        => ret.val = PosZero

\* a new pid, with ticks and a positive denominator
C6_Witness ==
    /\ ret.tag = "Return"
    /\ arg.type_of \in {"user", "system"}
    /\ arg.previous # None
    /\ arg.pid \notin DOMAIN arg.previous.val
    /\ arg.current_type_time > 0
    /\ arg.current_cpu_time > arg.previous_cpu_time

\* the entries of the snapshot assembled by this step whose pid was in the
\* previous map, the denominator being zero or negative
NonPositiveDenominatorCases ==
    IF CycleDone /\ snapshot'.tag = "Some" /\ previous_stats.tag = "Some"
          /\ snapshot'.val.total_cpu_time <= previous_cpu_time
    THEN DOMAIN snapshot'.val.pid_map_list \cap DOMAIN previous_stats.val
    ELSE {}

\* v is the IEEE-754 result of 100 * diff / den for den <= 0
IeeeNonPositive(v, diff, den) ==
    IF den = 0
    THEN (IF diff = 0 THEN v.k = "nan"
          ELSE v.k = "inf" /\ v.n = (IF diff > 0 THEN 1 ELSE -1))
    ELSE (IF diff = 0 THEN v.k = "negzero"
          ELSE v.k = "fin" /\ v.d > 0 /\ v.n * den = 100 * diff * v.d)

\* C7 as stated: with a zero or negative denominator the stored percentages
\* of a pid present in the previous map are 0.0.
C7_NonPositiveDenominatorIsZero ==
    [][\A p \in NonPositiveDenominatorCases :
           /\ IsZeroF(snapshot'.val.pid_map_list[p].user_cpu_usage)
           /\ IsZeroF(snapshot'.val.pid_map_list[p].sys_cpu_usage)]_vars

\* C7 amended: with a zero or negative denominator the stored percentages of
\* a pid present in the previous map are what the IEEE-754 division gives:
\* NaN or an infinity for a zero denominator, the quotient by the negative
\* denominator otherwise.
C7_NonPositiveDenominatorIEEE ==
    [][\A p \in NonPositiveDenominatorCases :
           LET den == snapshot'.val.total_cpu_time - previous_cpu_time
               cur == snapshot'.val.pid_map_list[p]
               old == previous_stats.val[p]
           IN  /\ IeeeNonPositive(cur.user_cpu_usage, cur.utime - old.utime, den)
               /\ IeeeNonPositive(cur.sys_cpu_usage, cur.stime - old.stime, den)]_vars

\* a snapshot storing an infinite user percentage and a NaN system percentage
C7_Witness ==
    /\ snapshot.tag = "Some"
    /\ \E p \in DOMAIN snapshot.val.pid_map_list :
          /\ snapshot.val.pid_map_list[p].user_cpu_usage.k = "inf"
          /\ snapshot.val.pid_map_list[p].sys_cpu_usage.k = "nan"

PreviousTicks(a) ==
    IF a.type_of = "user" THEN a.previous.val[a.pid].utime
    ELSE a.previous.val[a.pid].stime

\* C8: for a pid in the previous map and a positive denominator the result r
\* satisfies r * (current total - previous total) = 100 * (current ticks -
\* previous ticks of the same kind); the example input gives 10.
C8_UsageFormula ==
    /\ (ret.tag = "Return" /\ arg.type_of \in {"user", "system"}
        /\ ~NoPreviousSample(arg) /\ arg.current_cpu_time > arg.previous_cpu_time)
         => /\ ret.val.k = "fin"
            /\ ret.val.d > 0
            /\ ret.val.n * (arg.current_cpu_time - arg.previous_cpu_time)
                 = 100 * (arg.current_type_time - PreviousTicks(arg)) * ret.val.d
    /\ (ret.tag = "Return" /\ arg = ExampleCall)
         => ret.val = [k |-> "fin", n |-> 10, d |-> 1]

\* a system-kind call whose previous utime and stime differ
C8_Witness ==
    /\ ret.tag = "Return"
    /\ arg.type_of = "system"
    /\ ~NoPreviousSample(arg)
    /\ arg.previous.val[arg.pid].utime # arg.previous.val[arg.pid].stime
    /\ arg.current_cpu_time > arg.previous_cpu_time
    /\ ret.val.n # 0

\* C9: a call with a kind other than user or system does not return a number.
C9_UnknownKindFails ==
    (ret # NoCall /\ arg.type_of \notin {"user", "system"}) => ret.tag # "Return"

Qualifying(prc) ==
    /\ prc.present
    /\ prc.status.tag = "Ok"
    /\ prc.status.val.vmpeak # None
    /\ prc.rss # 0
    /\ prc.status.val.pid >= 0

\* C11: the sentinel of a failed status read has a negative pid; neither it
\* nor the process it stands for is in the map, every qualifying process of
\* the same enumeration is, with its own ticks, and the snapshot is assembled
\* and passed to the writer.
C11_SentinelFiltered ==
    proc_table.tag = "Some" =>
        /\ dummy_pid_status.pid < 0
        /\ snapshot.tag = "Some"
        /\ outcome.file \in {"Ok", "CreateErr"}
        /\ LET t == proc_table.val
               m == snapshot.val.pid_map_list
           IN  /\ dummy_pid_status.pid \notin DOMAIN m
               /\ \A p \in Pids :
                    (t[p].present /\ t[p].status.tag = "Err") => p \notin DOMAIN m
               /\ \A p \in Pids :
                    Qualifying(t[p]) =>
                        /\ p \in DOMAIN m
                        /\ m[p].utime = t[p].utime
                        /\ m[p].stime = t[p].stime

\* one status read fails, another process of the same enumeration qualifies
\* and the file is written
C11_Witness ==
    /\ proc_table.tag = "Some"
    /\ outcome.file = "Ok"
    /\ \E p, q \in Pids :
          /\ proc_table.val[p].present
          /\ proc_table.val[p].status.tag = "Err"
          /\ Qualifying(proc_table.val[q])
          /\ q \in DOMAIN snapshot.val.pid_map_list

\* the file the last iteration wrote, when it wrote one
WrittenFile == FileName(DataDir, snapshot.val.time_epoch)
HasWritten == outcome.file = "Ok" /\ snapshot.tag = "Some"

\* every file is in the output directory, is named by the capture time that
\* its content carries, and has the extension ext; the file of the last
\* iteration is named by the time_epoch of the snapshot assembled
NamedByCaptureTime(ext) ==
    /\ \A f \in DOMAIN files :
          /\ f[1] = DataDir
          /\ f[3] = ext
          /\ bincode_deserialize(files[f]).tag = "Ok"
               => bincode_deserialize(files[f]).val.time_epoch = f[2]
    /\ HasWritten =>
          /\ <<DataDir, snapshot.val.time_epoch, ext>> \in DOMAIN files
          /\ bincode_deserialize(files[<<DataDir, snapshot.val.time_epoch, ext>>]).tag = "Ok"

\* C12 as stated: each snapshot is in <output_directory>/<time_epoch>.snapshot,
\* time_epoch being the capture time stored in it.
C12_FileNameSnapshot == NamedByCaptureTime("snapshot")

\* C12 amended: each snapshot is in <output_directory>/<time_epoch>.procshot,
\* time_epoch being the capture time stored in it.
C12_FileNameProcshot == NamedByCaptureTime("procshot")

\* a snapshot written at a capture time after the first second
C12_Witness ==
    /\ HasWritten
    /\ snapshot.val.time_epoch > 0
    /\ WrittenFile \in DOMAIN files
    /\ bincode_deserialize(files[WrittenFile]).tag = "Ok"

RECURSIVE SeqSum(_)
SeqSum(fs) == IF fs = <<>> THEN 0 ELSE Head(fs) + SeqSum(Tail(fs))

\* C13: on a first line that is the aggregate record -- the label followed by
\* any number of counters -- read_proc_stat returns the sum of the counters;
\* on `cpu  100 200 300 50 10 0 0 0 0 0` it returns 660.
C13_SumOfFields ==
    (ret # NoCall /\ arg.fields.tag = "Some") =>
        /\ arg.file = StatLine(CpuRecord(arg.fields.val))
        /\ ret = Returned(Ok(SeqSum(arg.fields.val)))
        /\ arg.fields.val = ExampleFields => ret = Returned(Ok(660))

\* the reader has returned for a record of several counters, more than one of
\* them non-zero
C13_Witness ==
    /\ ret # NoCall
    /\ arg.fields.tag = "Some"
    /\ Len(arg.fields.val) >= 2
    /\ \E i, j \in 1..Len(arg.fields.val) :
          i # j /\ arg.fields.val[i] > 0 /\ arg.fields.val[j] > 0
    /\ ret = Returned(Ok(SeqSum(arg.fields.val)))

\* what reading the last written file back gives
Decoded == bincode_deserialize(files[WrittenFile])

HasNaN(e) ==
    \E p \in DOMAIN e.pid_map_list :
        \/ e.pid_map_list[p].user_cpu_usage.k = "nan"
        \/ e.pid_map_list[p].sys_cpu_usage.k = "nan"

C15_RootOnly ==
    ret # NoCall =>
        /\ ret.val.tag \in {"Ok", "Err"}
        /\ (ret.val.tag = "Ok") <=> (arg.uid = 0)
        /\ arg.uid = 0 => ret.val = Ok(Unit)
        /\ arg.uid # 0 => ret.val = Err("Error: Run as root.")

\* one of the crate's two tests has run: uid 0 accepted, or uid 10 refused
C15_Witness ==
    /\ ret # NoCall
    /\ \/ arg.uid = 0 /\ ret.val.tag = "Ok"
       \/ arg.uid = 10 /\ ret.val.tag = "Err"
    /\ arg.uid \in {0, 10}

\* C16: the retained previous state is (no map, 0) until the reader first
\* succeeds; a cycle whose reader succeeds and that does not abort replaces it
\* by that cycle's map, usage fields included, and that cycle's aggregate CPU
\* time, whether or not the file could be created; nothing else changes it.
\* So each cycle starts with the values of the latest cycle whose reader
\* succeeded.
C16_PreviousIsLastSuccess ==
    /\ previous_stats = None /\ previous_cpu_time = 0
    /\ [][pc' # "Crashed" =>
            IF CycleDone /\ outcome'.reader = "Ok"
            THEN /\ outcome'.file \in {"Ok", "CreateErr"}
                 /\ previous_stats' = Some(snapshot'.val.pid_map_list)
                 /\ previous_cpu_time' = snapshot'.val.total_cpu_time
                 /\ previous_cpu_time' = outcome'.read
                 /\ outcome'.file = "Ok" =>
                      bincode_deserialize(files'[FileName(DataDir, now)]).val.pid_map_list
                          = previous_stats'.val
            ELSE UNCHANGED <<previous_stats, previous_cpu_time>>]_vars

\* a cycle starts after one whose file could not be created: the previous
\* state is that cycle's non-empty map and its non-zero aggregate CPU time
C16_Witness ==
    /\ pc = "Sampling"
    /\ outcome.file = "CreateErr"
    /\ previous_stats = Some(snapshot.val.pid_map_list)
    /\ DOMAIN previous_stats.val # {}
    /\ previous_cpu_time = snapshot.val.total_cpu_time
    /\ previous_cpu_time > 0

\* C17: every pid key of a snapshot, as assembled and as written, was
\* enumerated in the same cycle; a pid of the previous cycle's map that is no
\* longer enumerated is not in the snapshot.
C17_MapBuiltFresh ==
    [][(CycleDone /\ outcome'.reader = "Ok" /\ pc' # "Crashed") =>
         LET m == snapshot'.val.pid_map_list
             t == proc_table'.val
         IN  /\ \A p \in DOMAIN m : p \in Pids /\ t[p].present
             /\ previous_stats.tag = "Some" =>
                  \A p \in DOMAIN previous_stats.val :
                      ~t[p].present => p \notin DOMAIN m
             /\ outcome'.file = "Ok" =>
                  DOMAIN bincode_deserialize(files'[FileName(DataDir, now)]).val.pid_map_list
                      = DOMAIN m]_vars

\* a snapshot written after an earlier one: a pid of the earlier file is gone
\* from /proc and from the new snapshot, which still holds another process
C17_Witness ==
    /\ HasWritten
    /\ proc_table.tag = "Some"
    /\ DOMAIN snapshot.val.pid_map_list # {}
    /\ \E f \in DOMAIN files :
          /\ f[2] < snapshot.val.time_epoch
          /\ bincode_deserialize(files[f]).tag = "Ok"
          /\ \E p \in DOMAIN bincode_deserialize(files[f]).val.pid_map_list :
                /\ ~proc_table.val[p].present
                /\ p \notin DOMAIN snapshot.val.pid_map_list

\* C18: a snapshot's total_cpu_time is what read_proc_stat returned in its
\* cycle; each usage field of the snapshot is get_cpu_usage with that value as
\* the current total and the retained previous_cpu_time (the total of the
\* latest earlier cycle whose reader succeeded, C16) as the previous total;
\* hostname and delay are the same in every snapshot and every file of a run.
C18_TotalsAndMetadata ==
    /\ [](\A f \in DOMAIN files :
             bincode_deserialize(files[f]).tag = "Ok" =>
                 /\ bincode_deserialize(files[f]).val.hostname = Host
                 /\ bincode_deserialize(files[f]).val.delay = delay)
    /\ [][/\ delay' = delay
          /\ (CycleDone /\ outcome'.reader = "Ok" /\ pc' # "Crashed") =>
               LET e == snapshot'.val
                   t == proc_table'.val
               IN  /\ e.total_cpu_time = outcome'.read
                   /\ e.hostname = Host
                   /\ e.delay = delay
                   /\ \A p \in DOMAIN e.pid_map_list :
                        /\ e.pid_map_list[p].user_cpu_usage =
                             get_cpu_usage("user", p, previous_stats, t[p].utime,
                                           outcome'.read, previous_cpu_time)
                        /\ e.pid_map_list[p].sys_cpu_usage =
                             get_cpu_usage("system", p, previous_stats, t[p].stime,
                                           outcome'.read, previous_cpu_time)]_vars

\* a second snapshot of a run with a non-zero delay: a process in it has a
\* finite non-zero percentage, and an earlier file carries the same delay
C18_Witness ==
    /\ outcome.reader = "Ok"
    /\ snapshot.tag = "Some"
    /\ snapshot.val.total_cpu_time = outcome.read
    /\ snapshot.val.delay > 0
    /\ \E p \in DOMAIN snapshot.val.pid_map_list :
          /\ snapshot.val.pid_map_list[p].user_cpu_usage.k = "fin"
          /\ snapshot.val.pid_map_list[p].user_cpu_usage.n # 0
    /\ \E f \in DOMAIN files :
          /\ f[2] < snapshot.val.time_epoch
          /\ bincode_deserialize(files[f]).tag = "Ok"
          /\ bincode_deserialize(files[f]).val.delay = snapshot.val.delay

\* a counter of the call is below its previous value
Decreasing(a) ==
    \/ a.current_type_time < PreviousTicks(a)
    \/ a.current_cpu_time < a.previous_cpu_time

\* C19: when the process's ticks or the total are below their previous values
\* get_cpu_usage returns, and what it returns is the signed quotient of the
\* signed differences: -inf when only the ticks fell and the total stood
\* still, -0.0 when only the total fell, and otherwise the finite r with
\* r * (current total - previous total) = 100 * (current ticks - previous
\* ticks), negative when exactly one of the two fell.
C19_DecreasingCountersSigned ==
    (ret # NoCall /\ arg.type_of \in {"user", "system"}
     /\ ~NoPreviousSample(arg) /\ Decreasing(arg)) =>
        LET dt == arg.current_type_time - PreviousTicks(arg)
            dc == arg.current_cpu_time - arg.previous_cpu_time
        IN  /\ ret.tag = "Return"
            /\ dc = 0 => ret.val = Inf(-1)
            /\ (dc # 0 /\ dt = 0) => ret.val = NegZero
            /\ (dc # 0 /\ dt # 0) =>
                  /\ ret.val.k = "fin"
                  /\ ret.val.d > 0
                  /\ ret.val.n * dc = 100 * dt * ret.val.d
                  /\ (ret.val.n < 0) <=> ((dt < 0) # (dc < 0))

\* the ticks fell while the total rose: a negative percentage is returned
C19_Witness ==
    /\ ret.tag = "Return"
    /\ arg.type_of \in {"user", "system"}
    /\ ~NoPreviousSample(arg)
    /\ arg.current_type_time < PreviousTicks(arg)
    /\ arg.current_cpu_time > arg.previous_cpu_time
    /\ ret.val.k = "fin"
    /\ ret.val.n < 0

====
